---- MODULE Spec2Model ----
(***************************************************************************)
(* Model of gameOfLife.ts: the PlayingField class (a sparse array of Cell  *)
(* objects with the generation engine) and the Game class (history,        *)
(* playback timer, controls).                                              *)
(*                                                                         *)
(* Cell objects live in a heap (heap[ref] is the object, a ref is its      *)
(* index) because the code shares Cell objects between arrays: getCells()  *)
(* copies the array, not the objects.  A PlayingField instance is modelled *)
(* by its cells array, a sequence of refs.                                 *)
(***************************************************************************)
EXTENDS Integers, Sequences, FiniteSets, TLC

VARIABLES
    heap,                 \* the Cell objects, by reference
    playingFields,        \* Game.playingFields: the instances, each its cells array
    currentPlayingField,  \* Game.currentPlayingField: which instance it refers to
    playing,              \* Game.playing
    pending,              \* number of setTimeout(play) callbacks not yet fired
    buttonText,           \* #startStop innerText
    clickEnabled,         \* fieldElement.onclick is populationWatcher (not null)
    sliderDisabled,       \* #generation disabled
    sliderMax,            \* #generation max
    spawns,               \* generations spawned since the content was last replaced
    last,                 \* the handler or method that ran last, with its input
                          \* and what it found (playing, or the field it ran on)
    self,                 \* class-level runs: the PlayingField under test
    other,                \* class-level runs: a second PlayingField
    cloned,               \* class-level runs: one of the two is the other's getClone()
    ret                   \* class-level runs: the array returned by the last call

vars == <<heap, playingFields, currentPlayingField, playing, pending, buttonText,
          clickEnabled, sliderDisabled, sliderMax, spawns, last, self, other,
          cloned, ret>>

gameVars == <<playingFields, currentPlayingField, playing, pending, buttonText,
              clickEnabled, sliderDisabled, sliderMax, spawns>>

classVars == <<self, other, cloned, ret>>

(***************************************************************************)
(* Bounds                                                                  *)
(***************************************************************************)
\* history length above which nothing is appended in the model; also the number
\* of play callbacks that may be pending on the timer at once, and one more than
\* the generations spawned from one starting content (a reset or a loaded game)
MaxGen == 2
\* class-level runs: array length above which toggleCell pushes no new entry
MaxCells == 2

(***************************************************************************)
(* PlayingField                                                            *)
(***************************************************************************)
Coords(x, y) == [x |-> x, y |-> y]

Cell(x, y, hasLife) == [x |-> x, y |-> y, hasLife |-> hasLife]

\* the (i, j) pairs of the two nested loops, i outer, j inner, (0, 0) skipped
Offsets ==
    << <<-1, -1>>, <<-1, 0>>, <<-1, 1>>, <<0, -1>>,
       <<0, 1>>, <<1, -1>>, <<1, 0>>, <<1, 1>> >>

\* hasLifeAt() that reads the first entry at the coordinates only, as
\* findCellAt() does
hasLifeAtFirstEntry(h, cells, coords) ==
    /\ Len(cells) > 0
    /\ \E k \in DOMAIN cells :
          /\ h[cells[k]].x = coords.x /\ h[cells[k]].y = coords.y
          /\ h[cells[k]].hasLife
          /\ \A m \in 1..(k - 1) :
                ~(h[cells[m]].x = coords.x /\ h[cells[m]].y = coords.y)

hasLifeAt(h, cells, coords) ==
    /\ Len(cells) > 0
    /\ Len(SelectSeq(cells, LAMBDA r :
            h[r].x = coords.x /\ h[r].y = coords.y /\ h[r].hasLife)) > 0

hasCellAt(h, cells, coords) ==
    /\ Len(cells) > 0
    /\ Len(SelectSeq(cells, LAMBDA r :
            h[r].x = coords.x /\ h[r].y = coords.y)) > 0

\* 1-based index of the first entry at coords, -1 if there is none
findCellAt(h, cells, coords) ==
    LET hits == {k \in DOMAIN cells :
                    h[cells[k]].x = coords.x /\ h[cells[k]].y = coords.y}
    IN  IF hits = {} THEN -1
        ELSE CHOOSE k \in hits : \A m \in hits : k <= m

\* addLifeAt() without the lookup: a new entry is pushed in every case
addLifeAtAlwaysPushes(h, cells, coords) ==
    [heap  |-> Append(h, Cell(coords.x, coords.y, TRUE)),
     cells |-> Append(cells, Len(h) + 1)]

addLifeAt(h, cells, coords) ==
    IF Len(cells) # 0 /\ findCellAt(h, cells, coords) # -1
    THEN [heap  |-> [h EXCEPT ![cells[findCellAt(h, cells, coords)]].hasLife = TRUE],
          cells |-> cells]
    ELSE [heap  |-> Append(h, Cell(coords.x, coords.y, TRUE)),
          cells |-> Append(cells, Len(h) + 1)]

killLifeAtKeepsFlag(h, cells, coords) ==
    IF Len(cells) # 0 /\ findCellAt(h, cells, coords) # -1
    THEN [heap  |-> [h EXCEPT ![cells[findCellAt(h, cells, coords)]].hasLife = FALSE],
          cells |-> cells]
    ELSE [heap |-> h, cells |-> cells]

\* splice(index, 1): the entry leaves the array
killLifeAt(h, cells, coords) ==
    IF Len(cells) # 0 /\ findCellAt(h, cells, coords) # -1
    THEN LET i == findCellAt(h, cells, coords)
         IN  [heap  |-> h,
              cells |-> SubSeq(cells, 1, i - 1) \o SubSeq(cells, i + 1, Len(cells))]
    ELSE [heap |-> h, cells |-> cells]

\* the count with the test i === 0 && j === 0 dropped: the cell counts itself
neighborsCountsSelf(h, cells, cell) ==
    Cardinality({m \in DOMAIN Offsets :
        hasLifeAt(h, cells, Coords(cell.x + Offsets[m][1], cell.y + Offsets[m][2]))})
    + (IF hasLifeAt(h, cells, Coords(cell.x, cell.y)) THEN 1 ELSE 0)

neighbors(h, cells, cell) ==
    Cardinality({m \in DOMAIN Offsets :
        hasLifeAt(h, cells, Coords(cell.x + Offsets[m][1], cell.y + Offsets[m][2]))})

\* the rule with the test cell.hasLife dropped: birth on 2 neighbours
cellLivesNextRoundBirthOnTwo(h, cells, cell) ==
    neighbors(h, cells, cell) = 2 \/ neighbors(h, cells, cell) = 3

cellLivesNextRoundNoSurvive(h, cells, cell) ==
    neighbors(h, cells, cell) = 3

cellLivesNextRound(h, cells, cell) ==
    \/ (neighbors(h, cells, cell) = 2 /\ cell.hasLife)
    \/ neighbors(h, cells, cell) = 3

RECURSIVE expandCellInsertsLife(_, _, _, _)
\* the loops around one cell, pushing { hasLife: true }
expandCellInsertsLife(h, cells, cell, m) ==
    IF m > Len(Offsets) THEN [heap |-> h, cells |-> cells]
    ELSE LET c == Coords(cell.x + Offsets[m][1], cell.y + Offsets[m][2])
         IN  IF ~hasCellAt(h, cells, c)
             THEN expandCellInsertsLife(Append(h, Cell(c.x, c.y, TRUE)),
                                        Append(cells, Len(h) + 1), cell, m + 1)
             ELSE expandCellInsertsLife(h, cells, cell, m + 1)

RECURSIVE expandCell(_, _, _, _)
\* the two nested loops around one cell, from offset number m on
expandCell(h, cells, cell, m) ==
    IF m > Len(Offsets) THEN [heap |-> h, cells |-> cells]
    ELSE LET c == Coords(cell.x + Offsets[m][1], cell.y + Offsets[m][2])
         IN  IF ~hasCellAt(h, cells, c)
             THEN expandCell(Append(h, Cell(c.x, c.y, FALSE)),
                             Append(cells, Len(h) + 1), cell, m + 1)
             ELSE expandCell(h, cells, cell, m + 1)

RECURSIVE expandFrom(_, _, _, _)
\* forEach from index k on; it visits the n entries the array had at the call
expandFrom(h, cells, k, n) ==
    IF k > n THEN [heap |-> h, cells |-> cells]
    ELSE CHOOSE out \in {expandFrom(e.heap, e.cells, k + 1, n) :
                          e \in {expandCell(h, cells, h[cells[k]], 1)}} : TRUE

\* the expansion run a second time over the expanded array: two rings
expandCellsWithNeighborsTwice(h, cells) ==
    CHOOSE out \in {expandFrom(e.heap, e.cells, 1, Len(e.cells)) :
                      e \in {expandFrom(h, cells, 1, Len(cells))}} : TRUE

expandCellsWithNeighbors(h, cells) == expandFrom(h, cells, 1, Len(cells))

toggleCell(h, cells, coords) ==
    IF hasLifeAt(h, cells, coords)
    THEN killLifeAt(h, cells, coords)
    ELSE addLifeAt(h, cells, coords)

\* the next generation's entries, lifeless ones included: the result of map()
mapped(e) ==
    [k \in DOMAIN e.cells |->
        Cell(e.heap[e.cells[k]].x, e.heap[e.cells[k]].y,
             cellLivesNextRound(e.heap, e.cells, e.heap[e.cells[k]]))]

\* e: the heap and the array once expanded. this: the source's array after the
\* call; new: the returned instance's array, of new Cell objects
nextGenerationKeepsLifeless(e) ==
    [heap |-> e.heap \o mapped(e),
     this |-> SelectSeq(e.cells, LAMBDA r : e.heap[r].hasLife),
     new  |-> [k \in DOMAIN e.cells |-> Len(e.heap) + k]]

\* spawnNew() that leaves the expanded array in the source: the assignment
\* this.cells = this.cells.filter(...) dropped
nextGenerationKeepsExpansion(e) ==
    CHOOSE out \in
        {[heap |-> e.heap \o alive,
          this |-> e.cells,
          new  |-> [k \in DOMAIN alive |-> Len(e.heap) + k]] :
         alive \in {SelectSeq(mapped(e), LAMBDA c : c.hasLife)}} : TRUE

nextGenerationOverwritesSource(e) ==
    CHOOSE out \in
        {[heap |-> e.heap \o alive,
          this |-> [k \in DOMAIN alive |-> Len(e.heap) + k],
          new  |-> [k \in DOMAIN alive |-> Len(e.heap) + k]] :
         alive \in {SelectSeq(mapped(e), LAMBDA c : c.hasLife)}} : TRUE

nextGeneration(e) ==
    CHOOSE out \in
        {[heap |-> e.heap \o alive,
          this |-> SelectSeq(e.cells, LAMBDA r : e.heap[r].hasLife),
          new  |-> [k \in DOMAIN alive |-> Len(e.heap) + k]] :
         alive \in {SelectSeq(mapped(e), LAMBDA c : c.hasLife)}} : TRUE

spawnNew(h, cells) ==
    CHOOSE out \in {nextGeneration(e) :
                      e \in {expandCellsWithNeighbors(h, cells)}} : TRUE

\* this.cells.map(d => d): a new array of the same Cell objects
getCells(cells) == cells

getDifferenceCells(h, cells, otherCells) ==
    SelectSeq(getCells(otherCells), LAMBDA r : ~hasLifeAt(h, cells, h[r]))

getClone(cells) == getCells(cells)

\* new PlayingField(cells) on plain data: each record becomes a new Cell object
construct(h, data) ==
    [heap  |-> h \o data,
     cells |-> [k \in DOMAIN data |-> Len(h) + k]]

(***************************************************************************)
(* References: unreachable Cell objects are dropped and the reachable ones *)
(* numbered in order of first use, so that a state does not depend on the  *)
(* order of allocation.                                                    *)
(***************************************************************************)
Range(seq) == {seq[k] : k \in DOMAIN seq}

RECURSIVE Flatten(_)
Flatten(arrays) ==
    IF arrays = <<>> THEN <<>> ELSE Head(arrays) \o Flatten(Tail(arrays))

RECURSIVE FirstUses(_, _)
FirstUses(refs, seen) ==
    IF refs = <<>> THEN <<>>
    ELSE IF Head(refs) \in seen THEN FirstUses(Tail(refs), seen)
    ELSE <<Head(refs)>> \o FirstUses(Tail(refs), seen \cup {Head(refs)})

\* st: [heap, playingFields, currentPlayingField, self, other, ret]
Renumber(st, order) ==
    LET at(r) == CHOOSE i \in DOMAIN order : order[i] = r
        move(cells) == [k \in DOMAIN cells |-> at(cells[k])]
    IN  [heap |-> [i \in DOMAIN order |-> st.heap[order[i]]],
         playingFields |-> [k \in DOMAIN st.playingFields |-> move(st.playingFields[k])],
         currentPlayingField |->
             [st.currentPlayingField EXCEPT !.cells = move(@)],
         self |-> move(st.self),
         other |-> move(st.other),
         ret |-> move(st.ret)]

Collect(st) ==
    CHOOSE out \in
        {Renumber(st, order) :
         order \in {FirstUses(Flatten(st.playingFields)
                              \o st.currentPlayingField.cells
                              \o st.self \o st.other \o st.ret, {})}} : TRUE

(***************************************************************************)
(* Game                                                                    *)
(*                                                                         *)
(* currentPlayingField refers to an instance stored in playingFields       *)
(* (where = "history", at index), to an instance that is not stored there  *)
(* (where = "detached", its array in cells), or is undefined.  No instance *)
(* is ever pushed twice, so an index names a stored instance.              *)
(***************************************************************************)
HistoryRef(index) == [where |-> "history", index |-> index, cells |-> <<>>]

DetachedRef(cells) == [where |-> "detached", index |-> 0, cells |-> cells]

UndefinedRef == [where |-> "undefined", index |-> 0, cells |-> <<>>]

\* the Game object and the DOM state it reads and writes, as one record
Game ==
    [heap |-> heap, playingFields |-> playingFields,
     currentPlayingField |-> currentPlayingField, playing |-> playing,
     pending |-> pending, buttonText |-> buttonText, clickEnabled |-> clickEnabled,
     sliderDisabled |-> sliderDisabled, sliderMax |-> sliderMax, threw |-> FALSE]

\* the cells array of the instance currentPlayingField refers to
currentCells(g) ==
    IF g.currentPlayingField.where = "history"
    THEN g.playingFields[g.currentPlayingField.index]
    ELSE g.currentPlayingField.cells

\* an assignment to this.cells of the instance currentPlayingField refers to
setCurrentCells(g, cells) ==
    IF g.currentPlayingField.where = "history"
    THEN [g EXCEPT !.playingFields[g.currentPlayingField.index] = cells]
    ELSE [g EXCEPT !.currentPlayingField.cells = cells]

\* draw constants and the canvas
cellSize == 30
scale == 1
dx == 0
dy == 0
width == 60
height == 30

coordinatesToPixels(coords) ==
    [x |-> (coords.x * cellSize + dx) * scale,
     y |-> (coords.y * cellSize + dy) * scale]

pixelsToCoordinates(pixelCoords) ==
    [x |-> ((pixelCoords.x - dx * scale) \div cellSize) \div scale,
     y |-> ((pixelCoords.y - dy * scale) \div cellSize) \div scale]

coordsInBounds(coords) ==
    LET pixelCoords == coordinatesToPixels(coords)
    IN  /\ pixelCoords.x >= 0 - cellSize * scale
        /\ pixelCoords.x <= width + cellSize * scale
        /\ pixelCoords.y >= 0 - cellSize * scale
        /\ pixelCoords.y <= height + cellSize * scale

updateGeneration(g) == [g EXCEPT !.sliderMax = Len(g.playingFields)]

stop(g) ==
    [g EXCEPT !.clickEnabled = TRUE, !.buttonText = "Start",
              !.playing = FALSE, !.sliderDisabled = FALSE]

\* play() that pushes a copy of the field it advanced, not the new generation
spawnedPushesSource(g, s, step) ==
    LET g1 == setCurrentCells([g EXCEPT !.heap = s.heap], s.this)
        g2 == [g1 EXCEPT !.playingFields = Append(@, s.this),
                         !.currentPlayingField = HistoryRef(Len(g.playingFields) + 1)]
        g3 == updateGeneration(g2)
    IN  IF step THEN g3 ELSE [g3 EXCEPT !.pending = @ + 1]

\* g: the game once this.currentPlayingField.spawnNew() has returned s
spawned(g, s, step) ==
    LET g1 == setCurrentCells([g EXCEPT !.heap = s.heap], s.this)
        g2 == [g1 EXCEPT !.playingFields = Append(@, s.new),
                         !.currentPlayingField = HistoryRef(Len(g.playingFields) + 1)]
        g3 == updateGeneration(g2)
    IN  IF step THEN g3 ELSE [g3 EXCEPT !.pending = @ + 1]

playIgnoresPlaying(g, step) ==
    IF g.currentPlayingField.where = "undefined" THEN [g EXCEPT !.threw = TRUE]
    ELSE CHOOSE out \in {spawned(g, s, step) :
                          s \in {spawnNew(g.heap, currentCells(g))}} : TRUE

\* spawnNew() on undefined throws before anything is assigned
play(g, step) ==
    IF ~g.playing /\ ~step THEN g
    ELSE IF g.currentPlayingField.where = "undefined" THEN [g EXCEPT !.threw = TRUE]
    ELSE CHOOSE out \in {spawned(g, s, step) :
                          s \in {spawnNew(g.heap, currentCells(g))}} : TRUE

\* a throw in play() leaves the slider as it was
start(g) ==
    CHOOSE out \in
        {IF g1.threw THEN g1 ELSE [g1 EXCEPT !.sliderDisabled = TRUE] :
         g1 \in {play([g EXCEPT !.buttonText = "Stop", !.clickEnabled = FALSE,
                                !.playing = TRUE], FALSE)}} : TRUE

\* initPlayingField() that leaves playback and the controls as they are
initPlayingFieldKeepsPlaying(g) ==
    [g EXCEPT !.playingFields = << <<>> >>,
              !.currentPlayingField = HistoryRef(1)]

\* initControls sets the controls' values and ends in assignControls, hence stop()
initPlayingField(g) ==
    stop([g EXCEPT !.playingFields = << <<>> >>,
                   !.currentPlayingField = HistoryRef(1)])

\* getClone() on undefined throws; the clone is used for drawing only
populationWatcher(g, event) ==
    IF g.currentPlayingField.where = "undefined" THEN [g EXCEPT !.threw = TRUE]
    ELSE CHOOSE out \in
             {setCurrentCells([g EXCEPT !.heap = t.heap], t.cells) :
              t \in {toggleCell(g.heap, currentCells(g),
                                pixelsToCoordinates(event))}} : TRUE

startStopHandler(g) ==
    IF g.buttonText = "Start" THEN start(g) ELSE stop(g)

stepHandler(g) == IF ~g.playing THEN play(g, TRUE) ELSE g

resetHandler(g) == updateGeneration(initPlayingField([g EXCEPT !.playingFields = <<>>]))

killUnseenHandler(g) ==
    IF g.currentPlayingField.where = "undefined" THEN [g EXCEPT !.threw = TRUE]
    ELSE LET newCells == SelectSeq(getCells(currentCells(g)),
                                   LAMBDA r : coordsInBounds(g.heap[r]))
         IN  [g EXCEPT !.playingFields = Append(@, newCells),
                       !.currentPlayingField = HistoryRef(Len(g.playingFields) + 1)]

\* saveHandler() that writes the current field as the whole history
saveHandlerCurrentOnly(g) ==
    [name |-> "saved", parses |-> TRUE, hasPlayingFields |-> TRUE,
     playingFields |-> << [k \in DOMAIN currentCells(g) |-> g.heap[currentCells(g)[k]]] >>,
     hasCurrent |-> g.currentPlayingField.where # "undefined",
     currentPlayingField |->
         [k \in DOMAIN currentCells(g) |-> g.heap[currentCells(g)[k]]]]

\* the text JSON.stringify writes into the download: each instance as its cells
\* array, each Cell by value; an undefined currentPlayingField is left out
saveHandler(g) ==
    [name |-> "saved", parses |-> TRUE, hasPlayingFields |-> TRUE,
     playingFields |->
         [i \in DOMAIN g.playingFields |->
             [k \in DOMAIN g.playingFields[i] |-> g.heap[g.playingFields[i][k]]]],
     hasCurrent |-> g.currentPlayingField.where # "undefined",
     currentPlayingField |->
         [k \in DOMAIN currentCells(g) |-> g.heap[currentCells(g)[k]]]]

\* playingFields[generation - 1] is undefined beyond the end of the array;
\* draw() then throws, after the assignment
generationHandler(g, generation) ==
    IF generation \in 1..Len(g.playingFields)
    THEN [g EXCEPT !.currentPlayingField = HistoryRef(generation)]
    ELSE [g EXCEPT !.currentPlayingField = UndefinedRef, !.threw = TRUE]

RECURSIVE constructAll(_, _, _)
\* loadedGame.playingFields.map(field => new PlayingField(field.cells)), the
\* instances built so far in arrays
constructAll(h, arrays, fields) ==
    IF fields = <<>> THEN [heap |-> h, arrays |-> arrays]
    ELSE CHOOSE out \in
             {constructAll(c.heap, Append(arrays, c.cells), Tail(fields)) :
              c \in {construct(h, Head(fields))}} : TRUE

\* the instance currentPlayingField refers to, once playingFields is replaced
keptCurrent(g) ==
    IF g.currentPlayingField.where = "history"
    THEN DetachedRef(currentCells(g))
    ELSE g.currentPlayingField

\* g once this.playingFields is assigned all, the instances built from the file
loaded(g, all, file) ==
    LET g1 == [g EXCEPT !.heap = all.heap,
                        !.playingFields = all.arrays,
                        !.currentPlayingField = keptCurrent(g)]
    IN  IF ~file.hasCurrent THEN [g1 EXCEPT !.threw = TRUE]
        ELSE CHOOSE out \in
                 {updateGeneration(
                      [g1 EXCEPT !.heap = c.heap,
                                 !.currentPlayingField = DetachedRef(c.cells)]) :
                  c \in {construct(all.heap, file.currentPlayingField)}} : TRUE

\* file: the text read, [parses, hasPlayingFields, playingFields, hasCurrent,
\* currentPlayingField]. JSON.parse throws on text that is no JSON; .map and
\* .cells throw on undefined.
fileLoaded(g, file) ==
    IF ~file.parses \/ ~file.hasPlayingFields THEN [g EXCEPT !.threw = TRUE]
    ELSE CHOOSE out \in
             {loaded(g, all, file) :
              all \in {constructAll(g.heap, <<>>, file.playingFields)}} : TRUE

(***************************************************************************)
(* Inputs                                                                  *)
(***************************************************************************)
\* the generation slider's min attribute and its max attribute as loaded
SliderMin == 1
InitialSliderMax == 1

\* mouse positions of clicks on the canvas
ClickEvents == {[x |-> 15, y |-> 15]}

Row3 == <<Cell(0, 0, TRUE), Cell(1, 0, TRUE), Cell(2, 0, TRUE)>>

Block == <<Cell(0, 0, TRUE), Cell(1, 0, TRUE), Cell(0, 1, TRUE), Cell(1, 1, TRUE)>>

\* a 2-by-2 block at another position
BlockAt ==
    <<Cell(-1, -2, TRUE), Cell(0, -2, TRUE), Cell(-1, -1, TRUE), Cell(0, -1, TRUE)>>

Plus ==
    <<Cell(1, 0, TRUE), Cell(0, 1, TRUE), Cell(1, 1, TRUE), Cell(2, 1, TRUE),
      Cell(1, 2, TRUE)>>

\* class-level runs: the coordinates toggleCell is called with
FieldCoords == {Coords(0, 0), Coords(1, 1)}

\* class-level runs: the cells the constructor is called with
InitFields ==
    { <<>>, Row3, Block, BlockAt, Plus,
      <<Cell(0, 0, TRUE)>>,
      <<Cell(0, 0, FALSE)>>,
      <<Cell(0, 0, FALSE), Cell(0, 0, TRUE)>>,
      <<Cell(0, 0, TRUE), Cell(0, 0, FALSE)>>,
      <<Cell(0, 0, TRUE), Cell(0, 0, TRUE)>>,
      <<Cell(1, 0, FALSE), Cell(0, 0, TRUE), Cell(1, 1, TRUE)>>,
      <<Cell(0, 0, TRUE), Cell(1, 0, TRUE), Cell(0, 1, FALSE), Cell(1, 1, FALSE)>> }

\* texts read by the FileReader
Files ==
    { \* no JSON
      [name |-> "garbage", parses |-> FALSE, hasPlayingFields |-> FALSE,
       playingFields |-> <<>>, hasCurrent |-> FALSE, currentPlayingField |-> <<>>],
      \* {}
      [name |-> "empty object", parses |-> TRUE, hasPlayingFields |-> FALSE,
       playingFields |-> <<>>, hasCurrent |-> FALSE, currentPlayingField |-> <<>>],
      \* {"playingFields": [{"cells": [(0,0)]}]}
      [name |-> "no current", parses |-> TRUE, hasPlayingFields |-> TRUE,
       playingFields |-> << <<Cell(0, 0, TRUE)>> >>,
       hasCurrent |-> FALSE, currentPlayingField |-> <<>>],
      \* a saved game of one generation, a row of three
      [name |-> "row", parses |-> TRUE, hasPlayingFields |-> TRUE,
       playingFields |-> <<Row3>>,
       hasCurrent |-> TRUE, currentPlayingField |-> Row3],
      \* a hand-written game: a lifeless entry, two entries at one coordinate
      [name |-> "hand-written", parses |-> TRUE, hasPlayingFields |-> TRUE,
       playingFields |-> << <<Cell(0, 0, FALSE), Cell(0, 0, TRUE)>> >>,
       hasCurrent |-> TRUE,
       currentPlayingField |-> <<Cell(0, 0, FALSE), Cell(1, 0, TRUE)>>] }

(***************************************************************************)
(* The Game's handlers as actions                                          *)
(***************************************************************************)
\* the values of spawns after a handler that leaves g; loading back the file
\* just saved brings no new starting content
countSpawns(g, op, at) ==
    IF op \in {"startStopHandler", "stepHandler", "play"}
       /\ Len(g.playingFields) > Len(playingFields)
    THEN spawns + 1
    ELSE IF op = "resetHandler"
            \/ (op = "fileLoaded" /\ ~g.threw /\ at # <<"saved">>)
    THEN 0 ELSE spawns

\* the handler's result g becomes the next state; at: the handler's input
CommitAt(g, op, at) ==
    \E n \in {Collect([heap |-> g.heap, playingFields |-> g.playingFields,
                       currentPlayingField |-> g.currentPlayingField,
                       self |-> self, other |-> other, ret |-> ret])} :
        /\ Len(g.playingFields) <= MaxGen
        /\ g.pending <= MaxGen
        /\ countSpawns(g, op, at) < MaxGen
        /\ spawns' = countSpawns(g, op, at)
        /\ heap' = n.heap
        /\ playingFields' = n.playingFields
        /\ currentPlayingField' = n.currentPlayingField
        /\ playing' = g.playing
        /\ pending' = g.pending
        /\ buttonText' = g.buttonText
        /\ clickEnabled' = g.clickEnabled
        /\ sliderDisabled' = g.sliderDisabled
        /\ sliderMax' = g.sliderMax
        /\ last' = [op |-> op, threw |-> g.threw, at |-> at,
                    before |-> {}, unique |-> TRUE, cells |-> <<>>,
                    expanded |-> <<>>, wasPlaying |-> playing]
        /\ UNCHANGED classVars

Commit(g, op) == CommitAt(g, op, <<>>)

Init ==
    /\ heap = <<>>
    /\ playingFields = << <<>> >>
    /\ currentPlayingField = HistoryRef(1)
    /\ playing = FALSE
    /\ pending = 0
    /\ buttonText = "Start"
    /\ clickEnabled = TRUE
    /\ sliderDisabled = FALSE
    /\ sliderMax = InitialSliderMax
    /\ spawns = 0
    /\ last = [op |-> "constructor", threw |-> FALSE, at |-> <<>>,
               before |-> {}, unique |-> TRUE, cells |-> <<>>,
               expanded |-> <<>>, wasPlaying |-> FALSE]
    /\ self = <<>>
    /\ other = <<>>
    /\ cloned = FALSE
    /\ ret = <<>>

Click ==
    /\ clickEnabled
    /\ \E event \in ClickEvents :
          \E g \in {populationWatcher(Game, event)} : Commit(g, "populationWatcher")

StartStop == \E g \in {startStopHandler(Game)} : Commit(g, "startStopHandler")

Step == \E g \in {stepHandler(Game)} : Commit(g, "stepHandler")

\* a setTimeout callback fires
Tick ==
    /\ pending > 0
    /\ \E g \in {play([Game EXCEPT !.pending = @ - 1], FALSE)} : Commit(g, "play")

Reset == \E g \in {resetHandler(Game)} : Commit(g, "resetHandler")

KillUnseen == \E g \in {killUnseenHandler(Game)} : Commit(g, "killUnseenHandler")

\* the download is written; the game is left as it is
Save == \E g \in {Game} : Commit(g, "saveHandler")

\* the files the user can pick: one of Files or, right after a Save made while
\* playback is at rest, the file just written
Pickable ==
    Files \cup (IF last.op = "saveHandler" /\ ~playing /\ pending = 0
                THEN {saveHandler(Game)} ELSE {})

Load ==
    \E file \in Pickable :
        \E g \in {fileLoaded(Game, file)} :
            CommitAt(g, "fileLoaded", IF file.name = "saved" THEN <<"saved">> ELSE <<>>)

Rewind ==
    /\ ~sliderDisabled
    /\ \E generation \in SliderMin..sliderMax :
          \E g \in {generationHandler(Game, generation)} :
              CommitAt(g, "generationHandler", <<generation>>)

Next ==
    \/ Click
    \/ StartStop
    \/ Step
    \/ Tick
    \/ Reset
    \/ KillUnseen
    \/ Save
    \/ Load
    \/ Rewind

Spec == Init /\ [][Next]_vars

\* the timer fires every callback it holds
FairSpec == Spec /\ WF_vars(Tick)

(***************************************************************************)
(* Class-level runs: a PlayingField is constructed and its public methods  *)
(* are called on it (self) and on a second instance (other).               *)
(***************************************************************************)
\* the coordinates at which a field has life
LiveSet(h, cells) == {<<h[r].x, h[r].y>> : r \in {q \in Range(cells) : h[q].hasLife}}

\* no two entries of the array at one coordinate
Unique(h, cells) ==
    \A j, k \in DOMAIN cells :
        j # k => <<h[cells[j]].x, h[cells[j]].y>> # <<h[cells[k]].x, h[cells[k]].y>>

\* what getCells() of a field shows: its entries by value, in order
CellsOf(h, cells) == [k \in DOMAIN cells |-> h[cells[k]]]

\* the entries of a field once spawnNew() has called expandCellsWithNeighbors()
Expanded(h, cells) ==
    CHOOSE out \in {CellsOf(e.heap, e.cells) :
                      e \in {expandCellsWithNeighbors(h, cells)}} : TRUE

\* the state after a call: the new heap h, the instances s and o, the result r;
\* before, unique, cells: the live coordinates of self, whether its entries had
\* pairwise distinct coordinates, and its entries, before the call; expanded:
\* the entries of self between the two phases of spawnNew()
Return(h, s, o, r, op, at) ==
    \E n \in {Collect([heap |-> h, playingFields |-> playingFields,
                       currentPlayingField |-> currentPlayingField,
                       self |-> s, other |-> o, ret |-> r])} :
        /\ heap' = n.heap
        /\ self' = n.self
        /\ other' = n.other
        /\ ret' = n.ret
        /\ last' = [op |-> op, threw |-> FALSE, at |-> at,
                    before |-> LiveSet(heap, self),
                    unique |-> Unique(heap, self),
                    cells |-> CellsOf(heap, self),
                    expanded |-> IF op = "spawnNew" THEN Expanded(heap, self)
                                 ELSE <<>>,
                    wasPlaying |-> FALSE]
        /\ UNCHANGED <<playingFields, currentPlayingField, playing, pending,
                       buttonText, clickEnabled, sliderDisabled, sliderMax>>

InitClass ==
    \E data \in InitFields :
        /\ heap = construct(<<>>, data).heap
        /\ self = construct(<<>>, data).cells
        /\ other = <<>>
        /\ cloned = FALSE
        /\ ret = <<>>
        /\ last = [op |-> "constructor", threw |-> FALSE, at |-> <<>>,
                   before |-> {}, unique |-> TRUE, cells |-> <<>>,
                   expanded |-> <<>>, wasPlaying |-> FALSE]
        /\ playingFields = << <<>> >>
        /\ currentPlayingField = HistoryRef(1)
        /\ playing = FALSE
        /\ pending = 0
        /\ buttonText = "Start"
        /\ clickEnabled = TRUE
        /\ sliderDisabled = FALSE
        /\ sliderMax = InitialSliderMax
        /\ spawns = 0

\* self.toggleCell(coords); a push happens only while the array is shorter
\* than MaxCells
CallToggleCell ==
    \E coords \in FieldCoords :
        \E t \in {toggleCell(heap, self, coords)} :
            /\ Len(t.cells) <= Len(self) \/ Len(t.cells) <= MaxCells
            /\ UNCHANGED <<spawns, cloned>>
            /\ Return(t.heap, t.cells, other, <<>>, "toggleCell",
                      <<coords.x, coords.y>>)

\* other = self.spawnNew(), at most MaxGen times
CallSpawnNew ==
    /\ spawns < MaxGen
    /\ spawns' = spawns + 1
    /\ cloned' = FALSE
    /\ \E s \in {spawnNew(heap, self)} :
          Return(s.heap, s.this, s.new, <<>>, "spawnNew", <<>>)

\* other = self.getClone()
CallGetClone ==
    /\ spawns' = spawns
    /\ cloned' = TRUE
    /\ Return(heap, self, getClone(self), <<>>, "getClone", <<>>)

\* ret = self.getDifferenceCells(other), or with itself
CallGetDifferenceCells ==
    /\ UNCHANGED <<spawns, cloned>>
    /\ \/ Return(heap, self, other, getDifferenceCells(heap, self, other),
                 "getDifferenceCells", <<"other">>)
       \/ Return(heap, self, other, getDifferenceCells(heap, self, self),
                 "getDifferenceCells", <<"self">>)

\* the caller goes on with the other instance
Swap ==
    /\ UNCHANGED <<spawns, cloned>>
    /\ Return(heap, other, self, <<>>, "swap", <<>>)

NextClass ==
    \/ CallToggleCell
    \/ CallSpawnNew
    \/ CallGetClone
    \/ CallGetDifferenceCells
    \/ Swap

FieldSpec == InitClass /\ [][NextClass]_vars

(***************************************************************************)
(* Properties                                                              *)
(***************************************************************************)
\* the 8 Moore neighbours of a coordinate
Moore(c) ==
    {d \in ((c[1] - 1)..(c[1] + 1)) \X ((c[2] - 1)..(c[2] + 1)) : d # c}

\* n(c): the live cells among the Moore neighbours of c
Around(L, c) == Cardinality(Moore(c) \cap L)

\* a part of the grid outside which no cell has a live neighbour
Grid(L) ==
    IF L = {} THEN {}
    ELSE LET xs == {c[1] : c \in L}
             ys == {c[2] : c \in L}
             lo(S) == CHOOSE m \in S : \A n \in S : m <= n
             hi(S) == CHOOSE m \in S : \A n \in S : m >= n
         IN  ((lo(xs) - 2)..(hi(xs) + 2)) \X ((lo(ys) - 2)..(hi(ys) + 2))

\* Conway's rule on a set of live coordinates
Conway(L) ==
    {c \in Grid(L) : (Around(L, c) = 2 /\ c \in L) \/ Around(L, c) = 3}

\* the live coordinates of the current field (none when it is undefined)
CurrentLive == LiveSet(heap, currentCells(Game))

\* every instance stored in the history shows the same live coordinates after
\* the step as before it
StoredLiveSetsKept ==
    \A k \in DOMAIN playingFields :
        /\ k \in DOMAIN playingFields'
        /\ LiveSet(heap', playingFields'[k]) = LiveSet(heap, playingFields[k])

\* the coordinates clicks are made at
ClickedCoords == {<<pixelsToCoordinates(e).x, pixelsToCoordinates(e).y>> : e \in ClickEvents}

\* C1: for a field whose entries have pairwise distinct coordinates, the live
\* coordinates of the field spawnNew() returns are exactly the cells c of the
\* grid with (n(c) = 2 and c alive) or n(c) = 3, n counted in the source field
\* before the call.
C1_SpawnNewIsConway ==
    (last.op = "spawnNew" /\ last.unique) =>
        LiveSet(heap, other) = Conway(last.before)

\* C1 witness: spawnNew() has run on such a field, with a survivor, a death and
\* a birth at a coordinate the source did not store.
C1_Witness ==
    /\ last.op = "spawnNew"
    /\ last.unique
    /\ last.before \cap LiveSet(heap, other) # {}
    /\ last.before \ LiveSet(heap, other) # {}
    /\ LiveSet(heap, other) \ last.before # {}

C3_StepAppendsSuccessor ==
    [][((last'.op = "stepHandler" /\ ~playing) \/ (last'.op = "play" /\ playing)) =>
          /\ Len(playingFields') = Len(playingFields) + 1
          /\ LiveSet(heap', playingFields'[Len(playingFields')]) = Conway(CurrentLive)
          /\ currentPlayingField' = HistoryRef(Len(playingFields'))
          /\ \A k \in DOMAIN playingFields :
                LiveSet(heap', playingFields'[k]) = LiveSet(heap, playingFields[k])]_vars

\* C4 as claimed: once one instance is the getClone() of the other, toggleCell
\* on self changes nothing getCells() and hasLifeAt() of the other show.
C4_CloneIsIndependent ==
    [][(cloned /\ last'.op = "toggleCell") =>
          CellsOf(heap', other') = CellsOf(heap, other)]_vars

\* C5 as claimed: a.getDifferenceCells(b) returns exactly the entries of b that
\* are alive and have no life in a; no entry with hasLife false is returned.
C5_DifferenceIsLiveOnly ==
    (last.op = "getDifferenceCells" /\ last.at = <<"other">>) =>
        CellsOf(heap, ret) =
            SelectSeq(CellsOf(heap, other),
                      LAMBDA c : c.hasLife /\ <<c.x, c.y>> \notin LiveSet(heap, self))

\* C6 as claimed: a load that fails leaves playingFields and currentPlayingField
\* exactly as they were.
C6_FailedLoadChangesNothing ==
    [][(last'.op = "fileLoaded" /\ last'.threw) =>
          /\ [k \in DOMAIN playingFields' |-> CellsOf(heap', playingFields'[k])]
                = [k \in DOMAIN playingFields |-> CellsOf(heap, playingFields[k])]
          /\ currentPlayingField' = currentPlayingField]_vars

\* C7: while playback is stopped a timer callback appends nothing and changes
\* no field, and only Start ends the stop.
C7_NoAppendWhileStopped ==
    [][/\ (~playing /\ last'.op = "play") =>
             /\ playingFields' = playingFields
             /\ currentPlayingField' = currentPlayingField
             /\ heap' = heap
       /\ (~playing /\ playing') =>
             (last'.op = "startStopHandler" /\ buttonText = "Start")]_vars

\* C7 witness: a callback scheduled during playback has fired after Stop.
C7_Witness ==
    /\ last.op = "play"
    /\ ~playing
    /\ buttonText = "Start"
    /\ Len(playingFields) >= 2

\* C8 as claimed: during playback a following tick is always scheduled.
C8_PlaybackKeepsTicking == playing => pending >= 1

\* C9 as claimed: Step during playback changes neither playingFields nor
\* currentPlayingField; Step while paused advances one generation, leaves
\* playing unset and schedules nothing.
C9_StepOnlyWhilePaused ==
    [][last'.op = "stepHandler" =>
          IF playing
          THEN /\ playingFields' = playingFields
               /\ currentPlayingField' = currentPlayingField
               /\ heap' = heap
          ELSE /\ Len(playingFields') = Len(playingFields) + 1
               /\ LiveSet(heap', playingFields'[Len(playingFields')])
                     = Conway(CurrentLive)
               /\ ~playing'
               /\ pending' = pending]_vars

\* C10 as claimed: toggleCell(c) twice in a row leaves the field with the live
\* coordinates it had before the two calls.
C10_ToggleTwiceRestores ==
    [][(/\ last.op = "toggleCell"
        /\ last'.op = "toggleCell"
        /\ last'.at = last.at) =>
          LiveSet(heap', self') = last.before]_vars

\* C11 as claimed: in every reachable state the current field and every field
\* of the history store at most one entry per coordinate.
C11_OneEntryPerCoordinate ==
    /\ \A k \in DOMAIN playingFields : Unique(heap, playingFields[k])
    /\ Unique(heap, currentCells(Game))

\* C12: getCells() of the field spawnNew() returns holds no entry with hasLife
\* false.
C12_SpawnedHoldsNoLifeless ==
    last.op = "spawnNew" => \A k \in DOMAIN other : heap[other[k]].hasLife

\* C12 witness: spawnNew() has returned a field with life, and a neighbour of a
\* live cell of the source, a candidate of the expansion, is not among its
\* entries.
C12_Witness ==
    /\ last.op = "spawnNew"
    /\ other # <<>>
    /\ \E c \in last.before : \E d \in Moore(c) :
          /\ d \notin last.before
          /\ \A k \in DOMAIN other : <<heap[other[k]].x, heap[other[k]].y>> # d

\* C13 as claimed: f.getDifferenceCells(f) is empty for every field f.
C13_DifferenceWithSelfIsEmpty ==
    (last.op = "getDifferenceCells" /\ last.at = <<"self">>) => ret = <<>>

\* C14: after spawnNew() the source field has the live coordinates it had before
\* the call, and it stores exactly the entries that had hasLife true before the
\* call, in their order.
C14_SpawnNewPrunesSource ==
    last.op = "spawnNew" =>
        /\ LiveSet(heap, self) = last.before
        /\ CellsOf(heap, self) = SelectSeq(last.cells, LAMBDA c : c.hasLife)

\* C14 witness: spawnNew() has run on a field that stored an entry with hasLife
\* false next to live ones.
C14_Witness ==
    /\ last.op = "spawnNew"
    /\ last.before # {}
    /\ \E k \in DOMAIN last.cells : ~last.cells[k].hasLife
    /\ Len(self) < Len(last.cells)

\* C15: after Reset, from any state, playingFields holds exactly one field, it
\* is empty and is currentPlayingField, and playing is false.
C15_ResetReseeds ==
    last.op = "resetHandler" =>
        /\ playingFields = << <<>> >>
        /\ currentPlayingField = HistoryRef(1)
        /\ ~playing

\* C15 witness: Reset was clicked during playback and a timer callback is still
\* pending.
C15_Witness ==
    /\ last.op = "resetHandler"
    /\ last.wasPlaying
    /\ pending >= 1
    /\ Len(playingFields) = 1

\* the entries of every field of the history, by value
HistoryCells(h, fields) == [k \in DOMAIN fields |-> CellsOf(h, fields[k])]

\* C16 as claimed: selecting a value g the generation slider offers makes
\* currentPlayingField the g-th entry of playingFields, which exists, and leaves
\* playingFields as it was.
C16_RewindSelectsStoredField ==
    [][last'.op = "generationHandler" =>
          /\ last'.at[1] \in DOMAIN playingFields
          /\ currentPlayingField' = HistoryRef(last'.at[1])
          /\ HistoryCells(heap', playingFields') = HistoryCells(heap, playingFields)]_vars

\* C17 as claimed: Kill unseen appends one new field to playingFields and makes
\* it currentPlayingField; its cells are exactly the cells of the field that
\* was current that lie within the bounds; the fields stored before keep their
\* live coordinates.
C17_KillUnseenKeepsVisible ==
    [][last'.op = "killUnseenHandler" =>
          /\ Len(playingFields') = Len(playingFields) + 1
          /\ currentPlayingField' = HistoryRef(Len(playingFields'))
          /\ CellsOf(heap', playingFields'[Len(playingFields')])
                = SelectSeq(CellsOf(heap, currentCells(Game)),
                            LAMBDA c : coordsInBounds(c))
          /\ StoredLiveSetsKept]_vars

\* C18: loading the file a Save has just written yields playingFields of the
\* same length with the same live coordinates index by index, and a
\* currentPlayingField with life at the same coordinates as when saving (none
\* of them when there was no current field to save).
C18_SaveLoadRoundTrip ==
    [][(last'.op = "fileLoaded" /\ last'.at = <<"saved">>) =>
          /\ Len(playingFields') = Len(playingFields)
          /\ \A k \in DOMAIN playingFields :
                LiveSet(heap', playingFields'[k]) = LiveSet(heap, playingFields[k])
          /\ (currentPlayingField'.where = "undefined")
                = (currentPlayingField.where = "undefined")
          /\ LiveSet(heap', currentCells([playingFields |-> playingFields',
                                          currentPlayingField |-> currentPlayingField']))
                = CurrentLive]_vars

\* C18 witness: a saved game of two generations, its current field with life,
\* has been loaded back.
C18_Witness ==
    /\ last.op = "fileLoaded"
    /\ last.at = <<"saved">>
    /\ ~last.threw
    /\ Len(playingFields) >= 2
    /\ CurrentLive # {}
    /\ LiveSet(heap, playingFields[1]) # CurrentLive

\* C19: spawnNew() on a field whose live cells are exactly (0,0), (1,0), (2,0)
\* yields live cells exactly (1,-1), (1,0), (1,1), and spawnNew() on a field
\* whose live cells are exactly these yields (0,0), (1,0), (2,0) again.
C19_BlinkerHasPeriodTwo ==
    /\ (last.op = "spawnNew" /\ last.before = {<<0, 0>>, <<1, 0>>, <<2, 0>>}) =>
          LiveSet(heap, other) = {<<1, -1>>, <<1, 0>>, <<1, 1>>}
    /\ (last.op = "spawnNew" /\ last.before = {<<1, -1>>, <<1, 0>>, <<1, 1>>}) =>
          LiveSet(heap, other) = {<<0, 0>>, <<1, 0>>, <<2, 0>>}

\* C19 witness: the second spawnNew() of the chain has returned the row.
C19_Witness ==
    /\ last.op = "spawnNew"
    /\ spawns = 2
    /\ last.before = {<<1, -1>>, <<1, 0>>, <<1, 1>>}
    /\ LiveSet(heap, other) = {<<0, 0>>, <<1, 0>>, <<2, 0>>}

\* the four cells of the 2-by-2 block with its corner at (x, y)
BlockCells(x, y) == {<<x, y>>, <<x + 1, y>>, <<x, y + 1>>, <<x + 1, y + 1>>}

\* the live coordinates L are exactly a 2-by-2 block
IsBlock(L) == \E c \in L : L = BlockCells(c[1], c[2])

\* C20: spawnNew() on a field whose live cells are exactly a 2-by-2 block, at
\* any position, yields a field with exactly the same live coordinates; so does
\* every further spawnNew().
C20_BlockIsStill ==
    (last.op = "spawnNew" /\ IsBlock(last.before)) =>
        LiveSet(heap, other) = last.before

\* C20 witness: the second spawnNew() in a row on a block away from the origin
\* has returned the block.
C20_Witness ==
    /\ last.op = "spawnNew"
    /\ spawns = 2
    /\ last.before = BlockCells(-1, -2)
    /\ LiveSet(heap, other) = BlockCells(-1, -2)
    /\ LiveSet(heap, self) = BlockCells(-1, -2)

\* the coordinates of a sequence of entries
CoordsOf(entries) == {<<entries[k].x, entries[k].y>> : k \in DOMAIN entries}

\* every Moore neighbour of a coordinate of S
Ring(S) == UNION {Moore(c) : c \in S}

\* C21: the expansion in spawnNew() ends, leaves the entries stored before in
\* place, and adds exactly one ring: afterwards the stored coordinates are the
\* coordinates stored before and every Moore neighbour of one of them, each
\* added once, with hasLife false; no neighbour of an added entry is added.
C21_ExpandAddsOneRing ==
    last.op = "spawnNew" =>
        /\ Len(last.expanded) >= Len(last.cells)
        /\ SubSeq(last.expanded, 1, Len(last.cells)) = last.cells
        /\ CoordsOf(last.expanded) = CoordsOf(last.cells) \cup Ring(CoordsOf(last.cells))
        /\ \A k \in (Len(last.cells) + 1)..Len(last.expanded) :
              /\ ~last.expanded[k].hasLife
              /\ <<last.expanded[k].x, last.expanded[k].y>> \notin CoordsOf(last.cells)
              /\ \A j \in (Len(last.cells) + 1)..Len(last.expanded) :
                    (last.expanded[j].x = last.expanded[k].x
                     /\ last.expanded[j].y = last.expanded[k].y) => j = k

\* C21 witness: the expansion has run on a field that stored a dead entry, and
\* added a neighbour of it that is the neighbour of no live cell.
C21_Witness ==
    /\ last.op = "spawnNew"
    /\ \E k \in DOMAIN last.cells :
          /\ ~last.cells[k].hasLife
          /\ \E d \in Moore(<<last.cells[k].x, last.cells[k].y>>) :
                /\ d \in CoordsOf(last.expanded) \ CoordsOf(last.cells)
                /\ d \notin Ring(last.before)

\* the coordinates at which a sequence of entries has life
LiveOf(entries) ==
    {<<entries[k].x, entries[k].y>> : k \in {j \in DOMAIN entries : entries[j].hasLife}}

\* the entries of the next generation when every neighbour count is taken over
\* the live coordinates L: the entries that survive or are born, in order
NextEntries(entries, L) ==
    LET lives(c) == \/ (Around(L, <<c.x, c.y>>) = 2 /\ c.hasLife)
                    \/ Around(L, <<c.x, c.y>>) = 3
    IN  [k \in DOMAIN SelectSeq(entries, lives) |->
            Cell(SelectSeq(entries, lives)[k].x, SelectSeq(entries, lives)[k].y, TRUE)]

\* C22: the expansion in spawnNew() changes hasLifeAt for no coordinate, and
\* the generation spawnNew() returns is the one got from the expanded entries
\* with every neighbour count taken over the live coordinates the field had
\* before the call.
C22_CountsOverSourceLiveSet ==
    last.op = "spawnNew" =>
        /\ LiveOf(last.expanded) = last.before
        /\ CellsOf(heap, other) = NextEntries(last.expanded, last.before)

\* C22 witness: spawnNew() has returned a cell born at a coordinate the
\* expansion added, next to a cell that died.
C22_Witness ==
    /\ last.op = "spawnNew"
    /\ LiveSet(heap, other) \ CoordsOf(last.cells) # {}
    /\ last.before \ LiveSet(heap, other) # {}
    /\ Len(last.expanded) > Len(last.cells)

\* C23 as claimed: at any time at most one play callback is pending on the
\* timer.
C23_AtMostOnePendingTick == pending <= 1

\* C24 as claimed: for every pair of adjacent entries of playingFields the live
\* coordinates of the later entry are the Conway successor of those of the
\* earlier entry.
C24_AdjacentAreSuccessors ==
    \A k \in 1..(Len(playingFields) - 1) :
        LiveSet(heap, playingFields[k + 1]) = Conway(LiveSet(heap, playingFields[k]))

\* C24 amended: an entry that a step, a Start or a play tick appends is, when it
\* is appended, the Conway successor of the field that was current, and becomes
\* current; an entry Kill unseen appends holds the live cells of the field that
\* was current that are in bounds; clicks, rewinds and saves append nothing.
C24_AppendedIsSuccessorOfCurrent ==
    [][/\ (/\ last'.op \in {"stepHandler", "startStopHandler", "play"}
           /\ Len(playingFields') = Len(playingFields) + 1) =>
             /\ LiveSet(heap', playingFields'[Len(playingFields')])
                   = Conway(CurrentLive)
             /\ currentPlayingField' = HistoryRef(Len(playingFields'))
       /\ (/\ last'.op = "killUnseenHandler"
           /\ Len(playingFields') = Len(playingFields) + 1) =>
             LiveSet(heap', playingFields'[Len(playingFields')])
                = {c \in CurrentLive : coordsInBounds(Coords(c[1], c[2]))}
       /\ last'.op \in {"populationWatcher", "generationHandler", "saveHandler"} =>
             Len(playingFields') = Len(playingFields)]_vars

\* C24 witness: a Step has appended an entry that is not the Conway successor of
\* the entry before it.
C24_Witness ==
    /\ last.op = "stepHandler"
    /\ Len(playingFields) = 2
    /\ currentPlayingField = HistoryRef(2)
    /\ LiveSet(heap, playingFields[2]) # Conway(LiveSet(heap, playingFields[1]))

\* C25: in every reachable state currentPlayingField is one of the instances
\* stored in playingFields, also after a successful load.
C25_CurrentIsStored ==
    /\ currentPlayingField.where = "history"
    /\ currentPlayingField.index \in 1..Len(playingFields)

\* C26: after every handler the generation slider's max equals
\* playingFields.length.
C26_SliderMaxIsHistoryLength == sliderMax = Len(playingFields)

\* C27: after every handler, playing is true exactly when click-to-toggle is
\* disabled, the generation slider is disabled and the button reads 'Stop'.
C27_PlayingMatchesControls ==
    /\ playing = ~clickEnabled
    /\ playing = sliderDisabled
    /\ playing = (buttonText = "Stop")

\* the entries in the opposite storage order
Reverse(entries) == [k \in DOMAIN entries |-> entries[Len(entries) + 1 - k]]

\* fields given as entries that differ from the given one in storage order or
\* in lifeless entries: reversed, without lifeless entries, a lifeless entry put
\* before or after the others at a stored or a near coordinate, and the fields
\* the constructor is called with
Variants(entries) ==
    {Reverse(entries), SelectSeq(entries, LAMBDA c : c.hasLife)}
    \cup {<<Cell(c[1], c[2], FALSE)>> \o entries :
            c \in CoordsOf(entries) \cup {<<0, 0>>, <<1, 1>>}}
    \cup {entries \o <<Cell(c[1], c[2], FALSE)>> :
            c \in CoordsOf(entries) \cup {<<0, 0>>, <<1, 1>>}}
    \cup InitFields

\* the live coordinates of the field spawnNew() returns for a field constructed
\* from the entries
SpawnedLive(entries) ==
    CHOOSE out \in {LiveSet(s.heap, s.new) :
                      s \in {spawnNew(c.heap, c.cells) :
                               c \in {construct(<<>>, entries)}}} : TRUE

\* C28: the live set of the field spawnNew() returns depends on the live set of
\* the source only: every field with the same live coordinates, in another
\* storage order or with other lifeless entries, gives the same live set.
C28_LiveSetOnlyDependsOnLiveSet ==
    last.op = "spawnNew" =>
        \A v \in Variants(last.cells) :
            LiveOf(v) = last.before =>
                SpawnedLive(v) = LiveSet(heap, other)

\* C28 witness: spawnNew() has returned a field with life from a source that
\* stored a lifeless entry and whose reversed storage order is another order.
C28_Witness ==
    /\ last.op = "spawnNew"
    /\ LiveSet(heap, other) # {}
    /\ \E k \in DOMAIN last.cells : ~last.cells[k].hasLife
    /\ Reverse(last.cells) # last.cells
    /\ SelectSeq(last.cells, LAMBDA c : c.hasLife) # last.cells

\* C29: toggleCell() and spawnNew() preserve key uniqueness: called on a field
\* with at most one entry per coordinate, toggleCell() leaves the field, and
\* spawnNew() leaves the source and the returned field, with at most one entry
\* per coordinate.
C29_UniquenessPreserved ==
    /\ (last.op = "toggleCell" /\ last.unique) => Unique(heap, self)
    /\ (last.op = "spawnNew" /\ last.unique) =>
          /\ Unique(heap, self)
          /\ Unique(heap, other)
          /\ \A j, k \in DOMAIN last.expanded :
                j # k => Coords(last.expanded[j].x, last.expanded[j].y)
                           # Coords(last.expanded[k].x, last.expanded[k].y)

\* C29 witness: spawnNew() has returned several entries from a source with one
\* entry per coordinate, a lifeless one among them.
C29_Witness ==
    /\ last.op = "spawnNew"
    /\ last.unique
    /\ \E k \in DOMAIN last.cells : ~last.cells[k].hasLife
    /\ Len(other) >= 3
    /\ Len(self) >= 2

\* C29 witness: toggleCell() has set the flag of a stored lifeless entry of a
\* field with one entry per coordinate.
C29_ToggleWitness ==
    /\ last.op = "toggleCell"
    /\ last.unique
    /\ Len(self) = Len(last.cells)
    /\ Len(self) >= 2
    /\ LiveSet(heap, self) # last.before

\* C30: killLifeAt(c) on a field that stores an entry at c (toggleCell() calls
\* it when there is life at c) removes the entry: afterwards hasCellAt(c) and
\* hasLifeAt(c) are false, every other entry is as it was, and a second
\* killLifeAt(c) changes nothing.
C30_KillRemovesEntry ==
    (last.op = "toggleCell" /\ <<last.at[1], last.at[2]>> \in last.before) =>
        LET c == Coords(last.at[1], last.at[2])
        IN  /\ ~hasCellAt(heap, self, c)
            /\ ~hasLifeAt(heap, self, c)
            /\ CellsOf(heap, self)
                  = SelectSeq(last.cells, LAMBDA e : ~(e.x = c.x /\ e.y = c.y))
            /\ killLifeAt(heap, self, c) = [heap |-> heap, cells |-> self]

====
